---- MODULE Spec2Model ----
(***************************************************************************)
(* simdinfo: detection of SIMD instruction sets (simdinfo.h), the          *)
(* per-thread cache of the detected record, and the dot product vdot_f32   *)
(* (vdot.h) that dispatches on it.                                         *)
(*                                                                         *)
(* simdinfo.h is present in two revisions in the source tree: the one      *)
(* with simdinfo_internal / simdinfo (19 flags) and the one with           *)
(* simdinfo_static / simdinfo_runtime_internal / simdinfo_runtime          *)
(* (14 flags), which is the one vdot.h calls.  Both are modelled.          *)
(*                                                                         *)
(* A build is fixed by the preprocessor symbols the code tests: the        *)
(* architecture, the operating system, the compiler, and the target        *)
(* feature macros.  The hardware is what cpuid, getauxval and sysctlbyname *)
(* answer at the moment they are asked.                                    *)
(***************************************************************************)
EXTENDS Integers, Sequences, FiniteSets, TLC

VARIABLES
  arch,                 \* "x86" | "aarch64" | "arm" | "other"
  os,                   \* "linux" | "apple" | "other"
  compiler,             \* "gnuc" | "msvc" | "other"
  targets,              \* the target-feature macros the compiler defines
  dflag,                \* -DVDOT_STATIC_DISPATCH=v on the command line: <<v>>, or <<>>
  api,                  \* the cached accessor of the revision in use
  hw,                   \* what the hardware queries answer now
  initialized,          \* [thread -> 0..1], static __thread unsigned initialized
  info,                 \* [thread -> record], static __thread struct simdinfo_t info
  pc,                   \* [thread -> position in the accessor]
  tmp,                  \* [thread -> the value simdinfo_internal() returned]
  ret,                  \* [thread -> the record the last finished call returned]
  probes,               \* [thread -> number of runs of the probe]
  calls,                \* [thread -> number of finished calls]
  firstProbe,           \* [thread -> the result of the thread's first probe]
  firstRet,             \* [thread -> the record the thread's first call returned]
  selected,             \* the kernel vdot_f32 ran last ("none" before any call)
  used,                 \* the record vdot_f32 read at its last call
  frame,                \* the locals of the kernel that runs, and its position
  outcome,              \* what the last kernel call produced
  size, a, b,           \* the arguments of the kernel call
  aligned64,            \* whether a and b are aligned to 64 bytes
  arith,                \* "exact" | "fp": how float operations round
  vec_size,             \* svcntw(), the number of float lanes of an SVE register
  called,               \* the probe or simdinfo_static, when called directly
  result,               \* the record that direct call returned
  dpc,                  \* the position of main
  argc, argv1,          \* the command line of the driver
  heap,                 \* whether the next calls of malloc succeed
  printed,              \* the messages main has printed
  status,               \* how the process of the driver ended
  ncalls                \* the number of calls of vdot_f32 by main

buildVars  == <<arch, os, compiler, targets, dflag, api>>
cacheVars  == <<initialized, info, pc, tmp, ret, probes, calls, firstProbe, firstRet>>
dispVars   == <<selected, used>>
inputVars  == <<size, a, b, aligned64, arith, vec_size>>
kernelVars == <<frame, outcome, inputVars>>
probeVars  == <<called, result>>
driverVars == <<dpc, argc, argv1, heap, printed, status, ncalls>>
vars == <<buildVars, hw, cacheVars, dispVars, kernelVars, probeVars, driverVars>>

-----------------------------------------------------------------------------
(* Bounds of the model *)

NumThreads == 2
MaxCalls == 2

Threads == 1..NumThreads

-----------------------------------------------------------------------------
(* Bit tests on register values *)

RECURSIVE BitAnd(_, _)
BitAnd(x, y) ==
  IF x = 0 \/ y = 0 THEN 0
  ELSE (x % 2) * (y % 2) + 2 * BitAnd(x \div 2, y \div 2)

\* (reg & mask) != 0, as an unsigned 0 or 1
Test(reg, mask) == IF BitAnd(reg, mask) # 0 THEN 1 ELSE 0

-----------------------------------------------------------------------------
(* struct simdinfo_t, first revision (simdinfo.h:53-76) *)

simdinfo_t ==
  { "supports_avx", "supports_avx2", "supports_avxvnni", "supports_f16c",
    "supports_fma", "supports_avx512f", "supports_avx512fp16",
    "supports_avx512bf16", "supports_avx512vnni", "supports_avx512vbmi",
    "supports_avx512dq", "supports_sse3", "supports_ssse3",
    "supports_neon", "supports_neon_fma", "supports_sve", "supports_sve2",
    "supports_arm_feature_matmul_int8",
    "supports_arm_feature_fp16_vector_arithmetic" }

(* struct simdinfo_t, revision of simdinfo_runtime (simdinfo.h:280-313) *)
simdinfo_runtime_t ==
  { "supports_avx", "supports_avx2", "supports_f16c", "supports_fma",
    "supports_avx512f", "supports_avx512fp16", "supports_avx512vnni",
    "supports_avx512ifma", "supports_avx512bitalg", "supports_avx512vbmi2",
    "supports_avx512vpopcntdq", "supports_neon", "supports_sve",
    "supports_sve2" }

\* struct simdinfo_t info = {0};
ZeroInfo(fields) == [f \in fields |-> 0]

-----------------------------------------------------------------------------
(* Preprocessor symbols of the build *)

X86 == arch = "x86"          \* __x86_64__ || _M_X64 || __i386 || _M_IX86
AARCH64 == arch = "aarch64"  \* __aarch64__
ARM == arch = "arm"          \* __arm__
LINUX == os = "linux"        \* __linux__
APPLE == os = "apple"        \* __APPLE__

\* #if __GNUC__ : gcc and clang define it, other compilers leave it 0
GNUC == IF compiler = "gnuc" THEN 1 ELSE 0

\* #elif MSC_VER : no compiler defines this name (MSVC defines _MSC_VER, the
\* name simdinfo.h:119 tests), so the preprocessor reads it as 0
MSC_VER == 0

\* whether the accessor is compiled with the thread-local cache
Cached == GNUC # 0 \/ MSC_VER # 0

-----------------------------------------------------------------------------
(* Masks of the hardware capability words.  The cpuid masks are literals   *)
(* of simdinfo.h; the HWCAP masks come from <asm/hwcap.h> of the target.   *)

HWCAP_SVE == 4194304        \* 1 << 22, arm64
HWCAP2_SVE2 == 2            \* 1 << 1, arm64
HWCAP2_I8MM == 8192         \* 1 << 13
HWCAP_ASIMDHP_64 == 1024    \* HWCAP_ASIMDHP, 1 << 10, arm64
HWCAP_NEON == 4096          \* 1 << 12, arm
HWCAP_VFPv4 == 65536        \* 1 << 16, arm
HWCAP_I8MM == 134217728     \* 1 << 27, arm
HWCAP_ASIMDHP_32 == 8388608 \* HWCAP_ASIMDHP, 1 << 23, arm

-----------------------------------------------------------------------------
(* The probes *)

\* int v = 0; sysctlbyname(name, &v, &size, NULL, 0); the value of v after
\* the call: the kernel's answer, or the initial 0 when the call fails
\* a variant that reads the variable as if the call had always filled it
sysctlbyname_unset(h, name) == h.sysctl[name]

sysctlbyname(h, name) == IF h.sysctl_ok THEN h.sysctl[name] ELSE 0

\* a variant that answers every query with the registers of leaf 1
cpuid_leaf1(h, leaf, subleaf) == h.info1

\* the cpuid instruction with eax = leaf, ecx = subleaf: the four registers
\* it leaves.  The hardware of the model answers leaf 1 and leaf 7 at
\* sub-leaf 0; any other query finds the registers zero.
cpuid(h, leaf, subleaf) ==
  CASE <<leaf, subleaf>> = <<1, 0>> -> h.info1
    [] <<leaf, subleaf>> = <<7, 0>> -> h.info7
    [] OTHER -> [eax |-> 0, ebx |-> 0, ecx |-> 0, edx |-> 0]

\* info.supports_... = (register & mask) != 0, first revision
x86_flags(info1, info7) ==
  [ZeroInfo(simdinfo_t) EXCEPT
     !.supports_avx = Test(info7.ecx, 268435456),
     !.supports_avx2 = Test(info7.ebx, 32),
     !.supports_f16c = Test(info1.ecx, 536870912),
     !.supports_fma = Test(info1.ecx, 4096),
     !.supports_avxvnni = Test(info7.eax, 16),
     !.supports_avx512f = Test(info7.ebx, 65536),
     !.supports_avx512fp16 = Test(info7.edx, 8388608),
     !.supports_avx512bf16 = Test(info7.edx, 32),
     !.supports_avx512vnni = Test(info7.ecx, 2048),
     !.supports_avx512vbmi = Test(info7.ecx, 2),
     !.supports_avx512dq = Test(info7.ebx, 131072)]

\* a variant that also decodes SSE3 from leaf 1 ecx bit 0
simdinfo_internal_x86_sse3(h) ==
  [x86_flags(cpuid(h, 1, 0), cpuid(h, 7, 0)) EXCEPT
     !.supports_sse3 = Test(h.info1.ecx, 1)]

\* simdinfo_internal(), x86 branch: cpuid leaf 1 and leaf 7, sub-leaf 0
simdinfo_internal_x86(h) == x86_flags(cpuid(h, 1, 0), cpuid(h, 7, 0))

\* a variant without the unconditional neon and neon_fma
simdinfo_internal_aarch64_nobase(h) ==
  [ZeroInfo(simdinfo_t) EXCEPT
     !.supports_neon = Test(h.hwcap, HWCAP_NEON),
     !.supports_sve = IF LINUX THEN Test(h.hwcap, HWCAP_SVE) ELSE 0,
     !.supports_sve2 = IF LINUX THEN Test(h.hwcap2, HWCAP2_SVE2) ELSE 0,
     !.supports_arm_feature_matmul_int8 =
        IF LINUX THEN Test(h.hwcap2, HWCAP2_I8MM)
        ELSE IF APPLE THEN sysctlbyname(h, "hw.optional.arm.FEAT_I8MM")
        ELSE 0,
     !.supports_arm_feature_fp16_vector_arithmetic =
        IF LINUX THEN Test(h.hwcap, HWCAP_ASIMDHP_64)
        ELSE IF APPLE THEN sysctlbyname(h, "hw.optional.arm.FEAT_FP16")
        ELSE 0]

\* simdinfo_internal(), aarch64 branch
simdinfo_internal_aarch64(h) ==
  LET base == [ZeroInfo(simdinfo_t) EXCEPT
                 !.supports_neon = 1,
                 !.supports_neon_fma = 1,
                 !.supports_sve = 0,
                 !.supports_sve2 = 0]
      lin == IF LINUX
             THEN [base EXCEPT
                     !.supports_sve = Test(h.hwcap, HWCAP_SVE),
                     !.supports_sve2 = Test(h.hwcap2, HWCAP2_SVE2),
                     !.supports_arm_feature_matmul_int8 =
                        Test(h.hwcap2, HWCAP2_I8MM),
                     !.supports_arm_feature_fp16_vector_arithmetic =
                        Test(h.hwcap, HWCAP_ASIMDHP_64)]
             ELSE base
  IN  IF APPLE
      THEN [lin EXCEPT
              !.supports_arm_feature_matmul_int8 =
                 sysctlbyname(h, "hw.optional.arm.FEAT_I8MM"),
              !.supports_arm_feature_fp16_vector_arithmetic =
                 sysctlbyname(h, "hw.optional.arm.FEAT_FP16")]
      ELSE lin

\* simdinfo_internal(), 32-bit arm branch (linux only)
simdinfo_internal_arm(h) ==
  [ZeroInfo(simdinfo_t) EXCEPT
     !.supports_neon = Test(h.hwcap, HWCAP_NEON),
     !.supports_neon_fma = Test(h.hwcap, HWCAP_VFPv4),
     !.supports_arm_feature_matmul_int8 = Test(h.hwcap2, HWCAP_I8MM),
     !.supports_arm_feature_fp16_vector_arithmetic =
        Test(h.hwcap, HWCAP_ASIMDHP_32)]

\* static inline struct simdinfo_t simdinfo_internal()
simdinfo_internal(h) ==
  IF X86 THEN simdinfo_internal_x86(h)
  ELSE IF AARCH64 THEN simdinfo_internal_aarch64(h)
  ELSE IF ARM /\ LINUX THEN simdinfo_internal_arm(h)
  ELSE ZeroInfo(simdinfo_t)

\* a variant with a branch that reports neon on every ARM build
simdinfo_runtime_internal_armneon(h) ==
  [ZeroInfo(simdinfo_runtime_t) EXCEPT
     !.supports_neon = IF AARCH64 \/ ARM THEN 1 ELSE 0,
     !.supports_avx = IF X86 THEN Test(h.info7.ecx, 268435456) ELSE 0,
     !.supports_avx2 = IF X86 THEN Test(h.info7.ebx, 32) ELSE 0,
     !.supports_avx512f = IF X86 THEN Test(h.info7.ebx, 65536) ELSE 0,
     !.supports_sve =
        IF AARCH64 /\ LINUX THEN Test(h.hwcap, HWCAP_SVE) ELSE 0]

\* info.supports_... = (register & mask) != 0, revision of simdinfo_runtime
x86_runtime_flags(info1, info7) ==
  [ZeroInfo(simdinfo_runtime_t) EXCEPT
     !.supports_avx = Test(info7.ecx, 268435456),
     !.supports_avx2 = Test(info7.ebx, 32),
     !.supports_f16c = Test(info1.ecx, 536870912),
     !.supports_fma = Test(info1.ecx, 4096),
     !.supports_avx512f = Test(info7.ebx, 65536),
     !.supports_avx512fp16 = Test(info7.edx, 8388608),
     !.supports_avx512vnni = Test(info7.ecx, 2048),
     !.supports_avx512ifma = Test(info7.ebx, 2097152),
     !.supports_avx512bitalg = Test(info7.ecx, 4096),
     !.supports_avx512vbmi2 = Test(info7.ecx, 64),
     !.supports_avx512vpopcntdq = Test(info7.ecx, 16384)]

\* static inline struct simdinfo_t simdinfo_runtime_internal()
simdinfo_runtime_internal(h) ==
  IF X86
  THEN x86_runtime_flags(cpuid(h, 1, 0), cpuid(h, 7, 0))
  ELSE IF AARCH64
  THEN [ZeroInfo(simdinfo_runtime_t) EXCEPT
          !.supports_neon = 1,
          !.supports_sve = IF LINUX THEN Test(h.hwcap, HWCAP_SVE) ELSE 0,
          !.supports_sve2 = IF LINUX THEN Test(h.hwcap2, HWCAP2_SVE2) ELSE 0]
  ELSE ZeroInfo(simdinfo_runtime_t)

\* static inline struct simdinfo_t simdinfo_static()
simdinfo_static ==
  [ZeroInfo(simdinfo_runtime_t) EXCEPT
     !.supports_avx512f = IF "__AVX512F__" \in targets THEN 1 ELSE 0,
     !.supports_avx512fp16 = IF "__AVX512FP16__" \in targets THEN 1 ELSE 0,
     !.supports_avx512vnni = IF "__AVX512VNNI__" \in targets THEN 1 ELSE 0,
     !.supports_avx512ifma = IF "__AVX512IFMA__" \in targets THEN 1 ELSE 0,
     !.supports_avx512bitalg = IF "__AVX512BITALG__" \in targets THEN 1 ELSE 0,
     !.supports_avx512vbmi2 = IF "__AVX512VBMI2__" \in targets THEN 1 ELSE 0,
     !.supports_avx512vpopcntdq =
        IF "__AVX512VPOPCNTDQ__" \in targets THEN 1 ELSE 0,
     !.supports_avx = IF "__AVX__" \in targets THEN 1 ELSE 0,
     !.supports_avx2 = IF "__AVX2__" \in targets THEN 1 ELSE 0,
     !.supports_sve = IF "__ARM_FEATURE_SVE" \in targets THEN 1 ELSE 0,
     !.supports_neon = IF "__ARM_NEON" \in targets THEN 1 ELSE 0]

\* the probe and the record type of the accessor in use
Fields == IF api = "simdinfo" THEN simdinfo_t ELSE simdinfo_runtime_t
Probe(h) ==
  IF api = "simdinfo" THEN simdinfo_internal(h) ELSE simdinfo_runtime_internal(h)

-----------------------------------------------------------------------------
(* The hardware: the answers a query can get.  Registers and capability    *)
(* words are sampled so that every flag the dispatcher reads is seen both  *)
(* set and clear, independently of the others.                             *)

Regs(eax, ebx, ecx, edx) == [eax |-> eax, ebx |-> ebx, ecx |-> ecx, edx |-> edx]
NoSysctl == [n \in {"hw.optional.arm.FEAT_I8MM", "hw.optional.arm.FEAT_FP16"} |-> 0]

Hw(i1, i7, hc, hc2, ok, sc) ==
  [info1 |-> i1, info7 |-> i7, hwcap |-> hc, hwcap2 |-> hc2,
   sysctl_ok |-> ok, sysctl |-> sc]

HwX86 ==
  { Hw(Regs(0, 0, c1, 0), Regs(0, b7, c7, 0), 0, 0, FALSE, NoSysctl) :
      <<c1, b7, c7>> \in ({0} \X {0, 32, 65536, 65568} \X {0, 268435456})
                         \cup {<<536875008, 65568, 268435456>>} }

HwAarch64Linux ==
  { Hw(Regs(0, 0, 0, 0), Regs(0, 0, 0, 0), hc, hc2, FALSE, NoSysctl) :
      <<hc, hc2>> \in {<<0, 0>>, <<4194304, 0>>, <<4195328, 8194>>} }

HwAarch64Apple ==
  { Hw(Regs(0, 0, 0, 0), Regs(0, 0, 0, 0), 0, 0, ok,
       [NoSysctl EXCEPT !["hw.optional.arm.FEAT_I8MM"] = v]) :
      <<ok, v>> \in {<<FALSE, 0>>, <<TRUE, 0>>, <<TRUE, 1>>} }

HwArm ==
  { Hw(Regs(0, 0, 0, 0), Regs(0, 0, 0, 0), hc, 0, FALSE, NoSysctl) :
      hc \in {0, 4096, 69632} }

HwNone == { Hw(Regs(0, 0, 0, 0), Regs(0, 0, 0, 0), 0, 0, FALSE, NoSysctl) }

HwSamples(ar, o) ==
  IF ar = "x86" THEN HwX86
  ELSE IF ar = "aarch64" /\ o = "linux" THEN HwAarch64Linux
  ELSE IF ar = "aarch64" /\ o = "apple" THEN HwAarch64Apple
  ELSE IF ar = "arm" /\ o = "linux" THEN HwArm
  ELSE HwNone

\* the answers the specification of the cache moves between: on x86 no
\* feature, AVX and AVX2, and every feature
HwFew(ar, o) ==
  IF ar = "x86"
  THEN { h \in HwX86 : <<h.info7.ebx, h.info7.ecx>> \in
                         {<<0, 0>>, <<32, 268435456>>, <<65568, 268435456>>} /\ h.info1.ecx = 0 }
  ELSE HwSamples(ar, o)

-----------------------------------------------------------------------------
(* float arithmetic.  Values are integers.  In "exact" arithmetic no       *)
(* operation rounds; in "fp" arithmetic every operation rounds its exact   *)
(* result to MantBits significant bits, ties to even, as IEEE-754 binary32 *)
(* does with 24.                                                           *)

MantBits == 4
MaxSize == 17

\* the width of size_t in the model
SizeBits == 6

RECURSIVE Pow2(_)
Pow2(k) == IF k = 0 THEN 1 ELSE 2 * Pow2(k - 1)

\* size_t arithmetic is modulo SIZE_MAX + 1
SIZE_MAX == Pow2(SizeBits) - 1
Wrap(x) == x % (SIZE_MAX + 1)

\* the spacing of representable values around a magnitude m
RECURSIVE Quantum(_, _)
Quantum(m, q) == IF m < Pow2(MantBits) * q THEN q ELSE Quantum(m, 2 * q)

RoundAbs(m) ==
  LET q == Quantum(m, 1)
      lo == (m \div q) * q
      r == m - lo
  IN  IF 2 * r < q THEN lo
      ELSE IF 2 * r > q THEN lo + q
      ELSE IF (m \div q) % 2 = 0 THEN lo ELSE lo + q

Round(x) == IF x < 0 THEN 0 - RoundAbs(0 - x) ELSE RoundAbs(x)

\* the operand is evaluated once, then rounded
Rd(x) ==
  CHOOSE r \in { IF arith = "exact" THEN v ELSE Round(v) : v \in {x} } : TRUE

FAdd(x, y) == Rd(x + y)          \* x + y
FSub(x, y) == Rd(x - y)          \* x - y
FMul(x, y) == Rd(x * y)          \* x * y
FMadd(x, y, z) == Rd(x * y + z)  \* fused x * y + z, one rounding

-----------------------------------------------------------------------------
(* The kernels of vdot.h, one action per position of each.  frame holds    *)
(* the locals of the kernel that runs: vsum is its vector of running sums  *)
(* (sum in the AVX and NEON kernels, vsum in the AVX-512 kernel, sum_vec   *)
(* in the SVE kernel), cvec its vector of compensation terms where it has  *)
(* one, sum its scalar running sum (sum, x, dot_product, result), c its    *)
(* scalar compensation term.  Element i of a C array is arr[i + 1]; a      *)
(* vector register of W lanes is a sequence of length W.                   *)

Zeros(W) == [l \in 1..W |-> 0]

\* r[0] + r[1] + ... + r[k-1], added left to right
RECURSIVE SumLanes(_, _)
SumLanes(v, k) == IF k = 1 THEN v[1] ELSE FAdd(SumLanes(v, k - 1), v[k])

\* dot_product = 0.0f; for (i = 0; i < k; i++) dot_product += sum[i];
RECURSIVE Accumulate(_, _)
Accumulate(v, k) == IF k = 0 THEN 0 ELSE FAdd(Accumulate(v, k - 1), v[k])

\* svaddv_f32(svptrue_b32(), v): the pairwise reduction of FADDV
RECURSIVE svaddv(_, _, _)
svaddv(v, lo, len) ==
  IF len = 1 THEN v[lo]
  ELSE FAdd(svaddv(v, lo, len \div 2), svaddv(v, lo + len \div 2, len \div 2))

\* what lies behind the arrays, read as a float
Garbage == {0, 100}

\* the float at arr + j: element j of the array, or what lies behind it
Elem(arr, j, g) == IF j < size THEN arr[j + 1] ELSE g

Kernels ==
  {"_vdot_f32_serial", "_vdot_f32_avx", "vdot_avx512f", "vdot_sve", "_vdot_f32_neon"}

\* the number of lanes of the kernel's vector registers
Lanes(k) ==
  CASE k = "_vdot_f32_avx" -> 8
    [] k = "vdot_avx512f" -> 16
    [] k = "vdot_sve" -> vec_size
    [] k = "_vdot_f32_neon" -> 4
    [] OTHER -> 0

NoFrame ==
  [fn |-> "none", pc |-> "done", i |-> 0, vsum |-> <<>>, cvec |-> <<>>,
   sum |-> 0, c |-> 0, reads |-> {}, stored |-> 0, room |-> 0]

NoOutcome == [kernel |-> "none", kind |-> "none", value |-> 0]

\* the locals of kernel k when its first loop is reached
Enter(k) ==
  [fn |-> k,
   pc |-> IF k = "_vdot_f32_serial" THEN "loop" ELSE "vloop",
   i |-> 0,
   vsum |-> IF k = "_vdot_f32_serial" THEN <<>> ELSE Zeros(Lanes(k)),
   cvec |-> IF k \in {"_vdot_f32_avx", "_vdot_f32_neon"} THEN Zeros(Lanes(k)) ELSE <<>>,
   sum |-> 0, c |-> 0, reads |-> {}, stored |-> 0, room |-> 0]

\* return v;
Return(v) ==
  /\ outcome' = [kernel |-> frame.fn, kind |-> "value", value |-> v]
  /\ frame' = [frame EXCEPT !.pc = "done"]

\* the process is killed by a signal
Fault(rd, st, rm) ==
  /\ outcome' = [kernel |-> frame.fn, kind |-> "fault", value |-> 0]
  /\ frame' = [frame EXCEPT !.pc = "done", !.reads = @ \cup rd,
                            !.stored = st, !.room = rm]

\* for (i = ...; i < size; i++) { y = a[i] * b[i] - c; t = sum + y;
\*                                 c = (t - sum) - y; sum = t; }  return sum;
ScalarKahan(k, at) ==
  /\ frame.fn = k /\ frame.pc = at
  /\ IF frame.i < size
     THEN LET y == FSub(FMul(a[frame.i + 1], b[frame.i + 1]), frame.c)
              t == FAdd(frame.sum, y)
          IN  /\ frame' = [frame EXCEPT !.i = Wrap(@ + 1), !.sum = t,
                                        !.c = FSub(FSub(t, frame.sum), y),
                                        !.reads = @ \cup {frame.i}]
              /\ UNCHANGED outcome
     ELSE Return(frame.sum)
  /\ UNCHANGED <<buildVars, hw, cacheVars, dispVars, probeVars, driverVars, inputVars>>

\* size_t ssize = size - (size % W);
\* for (i = 0; i < ssize; i += W) { va = load(a + i); vb = load(b + i);
\*   y = va * vb - cvec; t = sum + y; cvec = (t - sum) - y; sum = t; }
VectorKahan(k, W) ==
  /\ frame.fn = k /\ frame.pc = "vloop"
  /\ IF frame.i < size - (size % W)
     THEN LET y == [l \in 1..W |->
                      FSub(FMul(a[frame.i + l], b[frame.i + l]), frame.cvec[l])]
              t == [l \in 1..W |-> FAdd(frame.vsum[l], y[l])]
          IN  frame' = [frame EXCEPT
                 !.i = Wrap(@ + W), !.vsum = t,
                 !.cvec = [l \in 1..W |-> FSub(FSub(t[l], frame.vsum[l]), y[l])],
                 !.reads = @ \cup frame.i..(frame.i + W - 1)]
     ELSE frame' = [frame EXCEPT !.pc = "reduce"]
  /\ UNCHANGED <<buildVars, hw, cacheVars, dispVars, probeVars, driverVars, outcome, inputVars>>

\* float result[W]; store(result, sum); x = result[0] + ... + result[W-1];
\* store(result, cvec); c = result[0] + ... + result[W-1];
\* the remainder loop starts at i = ssize
LaneSums(k, W) ==
  /\ frame.fn = k /\ frame.pc = "reduce"
  /\ frame' = [frame EXCEPT !.sum = SumLanes(frame.vsum, W),
                            !.c = SumLanes(frame.cvec, W),
                            !.i = size - (size % W),
                            !.stored = W, !.room = W, !.pc = "tail"]
  /\ UNCHANGED <<buildVars, hw, cacheVars, dispVars, probeVars, driverVars, outcome, inputVars>>

_vdot_f32_serial_loop == ScalarKahan("_vdot_f32_serial", "loop")

_vdot_f32_avx_loop == VectorKahan("_vdot_f32_avx", 8)
_vdot_f32_avx_reduce == LaneSums("_vdot_f32_avx", 8)
_vdot_f32_avx_tail == ScalarKahan("_vdot_f32_avx", "tail")

_vdot_f32_neon_loop == VectorKahan("_vdot_f32_neon", 4)
_vdot_f32_neon_reduce == LaneSums("_vdot_f32_neon", 4)
_vdot_f32_neon_tail == ScalarKahan("_vdot_f32_neon", "tail")

\* for (i = 0; i < size; i += 16) { va = _mm512_load_ps(&a[i]);
\*   vb = _mm512_load_ps(&b[i]); vsum = _mm512_fmadd_ps(va, vb, vsum); }
\* The load takes 16 floats whatever size is, and wants an address aligned
\* to 64 bytes.  Past the end of the array, or from another address, it is
\* undefined: it delivers what lies there, or the process is killed.
vdot_avx512f_loop ==
  /\ frame.fn = "vdot_avx512f" /\ frame.pc = "vloop"
  /\ IF frame.i < size
     THEN LET chunk == frame.i..(frame.i + 15)
              past == frame.i + 16 > size
          IN  \/ /\ \E g \in (IF past THEN Garbage ELSE {0}) :
                      frame' = [frame EXCEPT
                        !.i = Wrap(@ + 16),
                        !.vsum = [l \in 1..16 |->
                                    FMadd(Elem(a, frame.i + l - 1, g),
                                          Elem(b, frame.i + l - 1, g),
                                          frame.vsum[l])],
                        !.reads = @ \cup chunk]
                 /\ UNCHANGED outcome
              \/ /\ past \/ ~aligned64
                 /\ Fault(chunk, 0, 0)
     ELSE /\ frame' = [frame EXCEPT !.pc = "store"]
          /\ UNCHANGED outcome
  /\ UNCHANGED <<buildVars, hw, cacheVars, dispVars, probeVars, driverVars, inputVars>>

\* float sum[8]; _mm512_storeu_ps(sum, vsum);
\* the store writes 16 floats into the 8 of sum: undefined, it overwrites
\* what follows sum on the stack and the call goes on, or the process is
\* killed
vdot_avx512f_store ==
  /\ frame.fn = "vdot_avx512f" /\ frame.pc = "store"
  /\ \/ /\ frame' = [frame EXCEPT !.stored = 16, !.room = 8, !.pc = "reduce"]
        /\ UNCHANGED outcome
     \/ Fault({}, 16, 8)
  /\ UNCHANGED <<buildVars, hw, cacheVars, dispVars, probeVars, driverVars, inputVars>>

\* dot_product = 0.0f; for (i = 0; i < 8; i++) dot_product += sum[i];
\* return dot_product;
vdot_avx512f_reduce ==
  /\ frame.fn = "vdot_avx512f" /\ frame.pc = "reduce"
  /\ outcome' = [kernel |-> frame.fn, kind |-> "value",
                 value |-> Accumulate(SubSeq(frame.vsum, 1, 8), 8)]
  /\ frame' = [frame EXCEPT !.pc = "done",
                            !.sum = Accumulate(SubSeq(frame.vsum, 1, 8), 8)]
  /\ UNCHANGED <<buildVars, hw, cacheVars, dispVars, probeVars, driverVars, inputVars>>

\* while (i + vec_size <= size) { pg = svwhilelt_b32(i, size);
\*   a_vec = svld1_f32(pg, &a[i]); b_vec = svld1_f32(pg, &b[i]);
\*   sum_vec = svmla_f32_m(pg, sum_vec, a_vec, b_vec); i += vec_size; }
\* i + vec_size is a size_t sum; lane l of pg is active when i + l < size
vdot_sve_loop ==
  /\ frame.fn = "vdot_sve" /\ frame.pc = "vloop"
  /\ IF Wrap(frame.i + vec_size) <= size
     THEN LET active == { l \in 1..vec_size : frame.i + (l - 1) < size }
          IN  frame' = [frame EXCEPT
                !.i = Wrap(@ + vec_size),
                !.vsum = [l \in 1..vec_size |->
                            IF l \in active
                            THEN FMadd(a[frame.i + l], b[frame.i + l],
                                       frame.vsum[l])
                            ELSE frame.vsum[l]],
                !.reads = @ \cup { frame.i + (l - 1) : l \in active }]
     ELSE frame' = [frame EXCEPT !.pc = "rem"]
  /\ UNCHANGED <<buildVars, hw, cacheVars, dispVars, probeVars, driverVars, outcome, inputVars>>

\* if (i < size) { pg = svwhilelt_b32(i, size); ... svmla_f32_m(pg, ...) }
\* lane l is active when i + l < size; an inactive lane loads nothing and
\* keeps its sum
vdot_sve_rem ==
  /\ frame.fn = "vdot_sve" /\ frame.pc = "rem"
  /\ LET active == { l \in 1..vec_size : frame.i + (l - 1) < size }
     IN  frame' = [frame EXCEPT
           !.vsum = [l \in 1..vec_size |->
                       IF l \in active
                       THEN FMadd(a[frame.i + l], b[frame.i + l], frame.vsum[l])
                       ELSE frame.vsum[l]],
           !.reads = @ \cup { frame.i + (l - 1) : l \in active },
           !.pc = "reduce"]
  /\ UNCHANGED <<buildVars, hw, cacheVars, dispVars, probeVars, driverVars, outcome, inputVars>>

\* result = svaddv_f32(svptrue_b32(), sum_vec); return result;
vdot_sve_reduce ==
  /\ frame.fn = "vdot_sve" /\ frame.pc = "reduce"
  /\ outcome' = [kernel |-> frame.fn, kind |-> "value",
                 value |-> svaddv(frame.vsum, 1, vec_size)]
  /\ frame' = [frame EXCEPT !.pc = "done",
                            !.sum = svaddv(frame.vsum, 1, vec_size)]
  /\ UNCHANGED <<buildVars, hw, cacheVars, dispVars, probeVars, driverVars, inputVars>>

\* one step of the kernel that runs
KernelStep ==
  \/ _vdot_f32_serial_loop
  \/ _vdot_f32_avx_loop
  \/ _vdot_f32_avx_reduce
  \/ _vdot_f32_avx_tail
  \/ vdot_avx512f_loop
  \/ vdot_avx512f_store
  \/ vdot_avx512f_reduce
  \/ vdot_sve_loop
  \/ vdot_sve_rem
  \/ vdot_sve_reduce
  \/ _vdot_f32_neon_loop
  \/ _vdot_f32_neon_reduce
  \/ _vdot_f32_neon_tail

-----------------------------------------------------------------------------
(* Builds: the combinations of architecture, operating system and compiler *)
(* the preprocessor branches tell apart.  The x86 probe needs GNU inline   *)
(* assembly or the MSVC intrinsic, so an x86 build is one of these two.    *)

Builds ==
  { <<"x86", "linux", "gnuc">>, <<"x86", "other", "msvc">>,
    <<"aarch64", "linux", "gnuc">>, <<"aarch64", "apple", "gnuc">>,
    <<"aarch64", "other", "gnuc">>,
    <<"arm", "linux", "gnuc">>, <<"arm", "other", "gnuc">>,
    <<"other", "other", "gnuc">>, <<"other", "other", "msvc">>,
    <<"other", "other", "other">> }

\* simdinfo_runtime()'s #else branch calls simdinfo_get_info_runtime_internal,
\* which is declared nowhere: that revision compiles only where __GNUC__ is set
Apis(comp) ==
  IF comp = "gnuc" THEN {"simdinfo", "simdinfo_runtime"} ELSE {"simdinfo"}

\* a value for "no record yet"
NoRec == [f \in {} |-> 0]

-----------------------------------------------------------------------------
(* The cached accessor: simdinfo() and simdinfo_runtime(), one thread's    *)
(* call at a time, statement by statement                                  *)

\* the call returns r
Finish(t, r) ==
  /\ ret' = [ret EXCEPT ![t] = r]
  /\ firstRet' = [firstRet EXCEPT ![t] = IF calls[t] = 0 THEN r ELSE @]
  /\ calls' = [calls EXCEPT ![t] = @ + 1]
  /\ pc' = [pc EXCEPT ![t] = "idle"]

\* a thread enters the accessor
simdinfo_call(t) ==
  /\ pc[t] = "idle"
  /\ calls[t] < MaxCalls
  /\ pc' = [pc EXCEPT ![t] = IF Cached THEN "check" ELSE "probe"]
  /\ UNCHANGED <<buildVars, hw, initialized, info, tmp, ret, probes, calls,
                 firstProbe, firstRet, dispVars, probeVars, driverVars, kernelVars>>

\* if (__builtin_expect(initialized, 1)) { return info; }
simdinfo_check(t) ==
  /\ pc[t] = "check"
  /\ IF initialized[t] # 0
     THEN Finish(t, info[t])
     ELSE /\ pc' = [pc EXCEPT ![t] = "probe"]
          /\ UNCHANGED <<ret, calls, firstRet>>
  /\ UNCHANGED <<buildVars, hw, initialized, info, tmp, probes, firstProbe,
                 dispVars, probeVars, driverVars, kernelVars>>

\* the call simdinfo_internal(): the hardware is asked now
simdinfo_probe(t) ==
  /\ pc[t] = "probe"
  /\ tmp' = [tmp EXCEPT ![t] = Probe(hw)]
  /\ probes' = [probes EXCEPT ![t] = @ + 1]
  /\ firstProbe' = [firstProbe EXCEPT ![t] = IF probes[t] = 0 THEN Probe(hw) ELSE @]
  /\ pc' = [pc EXCEPT ![t] = IF Cached THEN "store" ELSE "return_probe"]
  /\ UNCHANGED <<buildVars, hw, initialized, info, ret, calls, firstRet,
                 dispVars, probeVars, driverVars, kernelVars>>

\* a variant that leaves info as it is
simdinfo_store_skip(t) ==
  /\ pc[t] = "store"
  /\ pc' = [pc EXCEPT ![t] = "setinit"]
  /\ UNCHANGED <<buildVars, hw, initialized, info, tmp, ret, probes, calls,
                 firstProbe, firstRet, dispVars, probeVars, driverVars, kernelVars>>

\* info = simdinfo_internal();
simdinfo_store(t) ==
  /\ pc[t] = "store"
  /\ info' = [info EXCEPT ![t] = tmp[t]]
  /\ pc' = [pc EXCEPT ![t] = "setinit"]
  /\ UNCHANGED <<buildVars, hw, initialized, tmp, ret, probes, calls,
                 firstProbe, firstRet, dispVars, probeVars, driverVars, kernelVars>>

\* initialized = 1;
simdinfo_setinit(t) ==
  /\ pc[t] = "setinit"
  /\ initialized' = [initialized EXCEPT ![t] = 1]
  /\ pc' = [pc EXCEPT ![t] = "return"]
  /\ UNCHANGED <<buildVars, hw, info, tmp, ret, probes, calls, firstProbe,
                 firstRet, dispVars, probeVars, driverVars, kernelVars>>

\* return info;
simdinfo_return(t) ==
  /\ pc[t] = "return"
  /\ Finish(t, info[t])
  /\ UNCHANGED <<buildVars, hw, initialized, info, tmp, probes, firstProbe,
                 dispVars, probeVars, driverVars, kernelVars>>

\* #else return simdinfo_internal();
simdinfo_return_probe(t) ==
  /\ pc[t] = "return_probe"
  /\ Finish(t, tmp[t])
  /\ UNCHANGED <<buildVars, hw, initialized, info, tmp, probes, firstProbe,
                 dispVars, probeVars, driverVars, kernelVars>>

\* the hardware answers change: the thread now runs on a core with other
\* features, or the OS changes what it reports
HwChange ==
  /\ \E h \in HwFew(arch, os) \ {hw} : hw' = h
  /\ UNCHANGED <<buildVars, cacheVars, dispVars, probeVars, driverVars, kernelVars>>

InitCache ==
  /\ initialized = [t \in Threads |-> 0]
  /\ info = [t \in Threads |-> ZeroInfo(Fields)]
  /\ pc = [t \in Threads |-> "idle"]
  /\ tmp = [t \in Threads |-> NoRec]
  /\ ret = [t \in Threads |-> NoRec]
  /\ probes = [t \in Threads |-> 0]
  /\ calls = [t \in Threads |-> 0]
  /\ firstProbe = [t \in Threads |-> NoRec]
  /\ firstRet = [t \in Threads |-> NoRec]

\* neither the probe nor simdinfo_static was called directly
NoProbe == called = "none" /\ result = NoRec

\* the driver is not the program that runs
NoDriver ==
  /\ dpc = "none" /\ argc = 0 /\ argv1 = <<>> /\ heap = <<>>
  /\ printed = "" /\ status = "none" /\ ncalls = 0

InitIdle ==
  /\ NoProbe
  /\ NoDriver
  /\ selected = "none"
  /\ used = NoRec
  /\ frame = NoFrame
  /\ outcome = NoOutcome
  /\ size = 0 /\ a = <<>> /\ b = <<>>
  /\ aligned64 = TRUE
  /\ arith = "exact"
  /\ vec_size = 4

Init ==
  /\ \E bld \in Builds :
       /\ arch = bld[1] /\ os = bld[2] /\ compiler = bld[3]
       /\ api \in Apis(bld[3])
       /\ hw \in HwFew(bld[1], bld[2])
  /\ targets = {}
  /\ dflag = <<>>
  /\ InitCache
  /\ InitIdle

Next ==
  \/ \E t \in Threads :
       \/ simdinfo_call(t)
       \/ simdinfo_check(t)
       \/ simdinfo_probe(t)
       \/ simdinfo_store(t)
       \/ simdinfo_setinit(t)
       \/ simdinfo_return(t)
       \/ simdinfo_return_probe(t)
  \/ HwChange

Spec == Init /\ [][Next]_vars

-----------------------------------------------------------------------------
(* Properties of the cached accessor, under Spec                           *)

\* C3: within one thread the probe runs exactly once, on the first call of
\* the cached accessor; no later call of the thread probes again.
C3_ProbeExactlyOnce ==
  \A t \in Threads :
    /\ probes[t] <= 1
    /\ calls[t] >= 1 => probes[t] = 1

\* C4: every call of the cached accessor in a thread returns the record the
\* thread's first call returned, and the stored record stays the one of the
\* first call, whatever the hardware answers at the later call.
C4_CallsReturnSameRecord ==
  \A t \in Threads :
    calls[t] >= 1 =>
      /\ ret[t] = firstRet[t]
      /\ initialized[t] # 0 => info[t] = firstRet[t]

\* C5: under every interleaving of the threads' calls each thread probes at
\* most once and receives the result of its own first probe.
C5_ThreadGetsOwnFirstProbe ==
  \A t \in Threads :
    /\ probes[t] <= 1
    /\ calls[t] >= 1 => ret[t] = firstProbe[t]

\* a thread of an MSVC build finished two calls and probed at both
C3_FailingRun ==
  \E t \in Threads :
    compiler = "msvc" /\ calls[t] = 2 /\ probes[t] = 2

\* a thread of an MSVC build got from its second call a record that differs
\* from the one its first call returned
C4_FailingRun ==
  \E t \in Threads :
    compiler = "msvc" /\ calls[t] = 2 /\ ret[t] # firstRet[t]

\* a thread of a build without __GNUC__ received the result of its second
\* probe, not of its first, while another thread was calling too
C5_FailingRun ==
  \E t \in Threads : \E u \in Threads \ {t} :
    /\ ~Cached
    /\ probes[t] = 2 /\ calls[t] = 2 /\ ret[t] # firstProbe[t]
    /\ calls[u] >= 1

\* Where the storage branch is compiled (__GNUC__), the three properties hold.
CachedBuildsProbeOnce ==
  Cached => /\ C3_ProbeExactlyOnce
            /\ C4_CallsReturnSameRecord
            /\ C5_ThreadGetsOwnFirstProbe

\* a thread of a build with the storage branch finished two calls while the
\* hardware answers changed, and got its first probe's record both times
CachedBuildsWitness ==
  \E t \in Threads :
    /\ Cached
    /\ calls[t] = 2
    /\ Probe(hw) # firstProbe[t]
    /\ ret[t] = firstProbe[t]

-----------------------------------------------------------------------------
(* vdot_f32: the dispatcher of vdot.h                                      *)

\* #ifndef VDOT_STATIC_DISPATCH  #define VDOT_STATIC_DISPATCH 1  #endif
VDOT_STATIC_DISPATCH == IF dflag = <<>> THEN 1 ELSE dflag[1]

\* simdinfo_runtime() as the calling thread sees it (the __GNUC__ branch)
simdinfo_runtime(t) ==
  IF initialized[t] # 0 THEN info[t] ELSE simdinfo_runtime_internal(hw)

\* Variants of the chain of vdot_f32, each with one test changed; the
\* properties of the dispatcher below must tell them from the code.

\* the test of info.supports_avx512f left out
vdot_f32_kernel_noflag(inf) ==
  IF "__AVX512F__" \in targets
  THEN "vdot_avx512f"
  ELSE IF ("__AVX__" \in targets \/ "__AVX2__" \in targets)
          /\ (VDOT_STATIC_DISPATCH # 0 \/ inf.supports_avx # 0
                \/ inf.supports_avx2 # 0)
  THEN "_vdot_f32_avx"
  ELSE IF "__ARM_FEATURE_SVE" \in targets
          /\ (VDOT_STATIC_DISPATCH # 0 \/ inf.supports_sve # 0)
  THEN "vdot_sve"
  ELSE IF "__ARM_NEON" \in targets
          /\ (VDOT_STATIC_DISPATCH # 0 \/ inf.supports_neon # 0)
  THEN "_vdot_f32_neon"
  ELSE "_vdot_f32_serial"

\* the AVX kernel tried before the AVX-512 kernel
vdot_f32_kernel_swapped(inf) ==
  IF ("__AVX__" \in targets \/ "__AVX2__" \in targets)
     /\ (VDOT_STATIC_DISPATCH # 0 \/ inf.supports_avx # 0
           \/ inf.supports_avx2 # 0)
  THEN "_vdot_f32_avx"
  ELSE IF "__AVX512F__" \in targets
          /\ (VDOT_STATIC_DISPATCH # 0 \/ inf.supports_avx512f # 0)
  THEN "vdot_avx512f"
  ELSE IF "__ARM_FEATURE_SVE" \in targets
          /\ (VDOT_STATIC_DISPATCH # 0 \/ inf.supports_sve # 0)
  THEN "vdot_sve"
  ELSE IF "__ARM_NEON" \in targets
          /\ (VDOT_STATIC_DISPATCH # 0 \/ inf.supports_neon # 0)
  THEN "_vdot_f32_neon"
  ELSE "_vdot_f32_serial"

\* VDOT_STATIC_DISPATCH || left out of the tests
vdot_f32_kernel_flagsonly(inf) ==
  IF "__AVX512F__" \in targets /\ inf.supports_avx512f # 0
  THEN "vdot_avx512f"
  ELSE IF ("__AVX__" \in targets \/ "__AVX2__" \in targets)
          /\ (inf.supports_avx # 0 \/ inf.supports_avx2 # 0)
  THEN "_vdot_f32_avx"
  ELSE IF "__ARM_FEATURE_SVE" \in targets /\ inf.supports_sve # 0
  THEN "vdot_sve"
  ELSE IF "__ARM_NEON" \in targets /\ inf.supports_neon # 0
  THEN "_vdot_f32_neon"
  ELSE "_vdot_f32_serial"

\* the chain of #if / if of vdot_f32: the kernel it returns from
vdot_f32_kernel(inf) ==
  IF "__AVX512F__" \in targets
     /\ (VDOT_STATIC_DISPATCH # 0 \/ inf.supports_avx512f # 0)
  THEN "vdot_avx512f"
  ELSE IF ("__AVX__" \in targets \/ "__AVX2__" \in targets)
          /\ (VDOT_STATIC_DISPATCH # 0 \/ inf.supports_avx # 0
                \/ inf.supports_avx2 # 0)
  THEN "_vdot_f32_avx"
  ELSE IF "__ARM_FEATURE_SVE" \in targets
          /\ (VDOT_STATIC_DISPATCH # 0 \/ inf.supports_sve # 0)
  THEN "vdot_sve"
  ELSE IF "__ARM_NEON" \in targets
          /\ (VDOT_STATIC_DISPATCH # 0 \/ inf.supports_neon # 0)
  THEN "_vdot_f32_neon"
  ELSE "_vdot_f32_serial"

\* float vdot_f32(float *a, float *b, size_t size), called by thread t
vdot_f32_call(t) ==
  LET dyn == VDOT_STATIC_DISPATCH = 0
      inf == IF dyn THEN simdinfo_runtime(t) ELSE simdinfo_static
      first == dyn /\ initialized[t] = 0
      k == vdot_f32_kernel(inf)
  IN  /\ frame.pc = "done"
      /\ used' = inf
      /\ selected' = k
      /\ info' = IF first THEN [info EXCEPT ![t] = inf] ELSE info
      /\ initialized' = IF first THEN [initialized EXCEPT ![t] = 1] ELSE initialized
      /\ probes' = IF first THEN [probes EXCEPT ![t] = @ + 1] ELSE probes
      /\ firstProbe' = IF first THEN [firstProbe EXCEPT ![t] = inf] ELSE firstProbe
      /\ frame' = Enter(k)
      /\ outcome' = NoOutcome
      /\ UNCHANGED <<buildVars, hw, pc, tmp, ret, calls, firstRet, inputVars>>

\* the call made by a thread of a program other than the driver
vdot_f32(t) == vdot_f32_call(t) /\ UNCHANGED <<probeVars, driverVars>>

\* the hardware answers change between two calls
HwMove ==
  /\ \E h \in HwFew(arch, os) \ {hw} : hw' = h
  /\ UNCHANGED <<buildVars, cacheVars, dispVars, probeVars, driverVars, kernelVars>>

\* the target-feature macros a compiler for the architecture can define
TargetSets(ar) ==
  IF ar = "x86" THEN SUBSET {"__AVX512F__", "__AVX__", "__AVX2__"}
  ELSE IF ar = "aarch64" THEN SUBSET {"__ARM_FEATURE_SVE", "__ARM_NEON"}
  ELSE IF ar = "arm" THEN SUBSET {"__ARM_NEON"}
  ELSE {{}}

Ones(n) == [i \in 1..n |-> 1]
Ramp(n) == [i \in 1..n |-> i - 1]
Spike(n) == [i \in 1..n |-> IF i = 1 THEN 16 ELSE 1]

DispatchSizes == {0, 9}

InitDispatch ==
  /\ \E bld \in { x \in Builds : x[3] = "gnuc" } :
       /\ arch = bld[1] /\ os = bld[2] /\ compiler = bld[3]
       /\ targets \in TargetSets(bld[1])
       /\ hw \in HwSamples(bld[1], bld[2])
  /\ api = "simdinfo_runtime"
  /\ dflag \in {<<>>, <<1>>, <<0>>}
  /\ InitCache
  /\ NoProbe
  /\ NoDriver
  /\ selected = "none"
  /\ used = NoRec
  /\ frame = NoFrame
  /\ outcome = NoOutcome
  /\ size \in DispatchSizes
  /\ a = Ramp(size) /\ b = Ramp(size)
  /\ aligned64 = TRUE
  /\ arith = "exact"
  /\ vec_size = 4

NextDispatch ==
  \/ \E t \in Threads : vdot_f32(t)
  \/ KernelStep
  \/ HwMove

SpecDispatch == InitDispatch /\ [][NextDispatch]_vars

-----------------------------------------------------------------------------
(* Properties of the dispatcher, under SpecDispatch                        *)

Dynamic == VDOT_STATIC_DISPATCH = 0
Static == VDOT_STATIC_DISPATCH # 0

\* synthetic records: every subset of the flags vdot_f32 reads
DispatchFlags ==
  {"supports_avx512f", "supports_avx", "supports_avx2", "supports_sve",
   "supports_neon"}

DispatchRecords ==
  { [f \in simdinfo_runtime_t |-> IF f \in s THEN 1 ELSE 0] :
      s \in SUBSET DispatchFlags }

\* the kernel k is named only on a record r that has its feature
Supported(k, r) ==
  /\ k = "vdot_avx512f" => r.supports_avx512f # 0
  /\ k = "_vdot_f32_avx" => (r.supports_avx # 0 \/ r.supports_avx2 # 0)
  /\ k = "vdot_sve" => r.supports_sve # 0
  /\ k = "_vdot_f32_neon" => r.supports_neon # 0

\* C1: in dynamic-dispatch mode, whatever the record (any subset of the
\* flags) and whatever kernels are compiled in, vdot_f32 selects no kernel
\* whose feature flag is false in the record: the avx512f kernel only with
\* avx512f, the avx kernel only with avx or avx2, the sve kernel only with
\* sve, the neon kernel only with neon.
C1_DynamicSelectsSupported ==
  Dynamic =>
    /\ selected # "none" => Supported(selected, used)
    /\ \A r \in DispatchRecords : Supported(vdot_f32_kernel(r), r)

\* a dynamic call skipped the compiled-in SVE kernel because the record has
\* no sve, and ran the NEON kernel
C1_Witness ==
  /\ Dynamic
  /\ selected = "_vdot_f32_neon"
  /\ "__ARM_FEATURE_SVE" \in targets
  /\ used.supports_sve = 0
  /\ used.supports_neon # 0

\* the priority list: kernel, the macros that compile it in, its flags
PriorityList ==
  << [kernel |-> "vdot_avx512f", macros |-> {"__AVX512F__"},
      flags |-> {"supports_avx512f"}],
     [kernel |-> "_vdot_f32_avx", macros |-> {"__AVX__", "__AVX2__"},
      flags |-> {"supports_avx", "supports_avx2"}],
     [kernel |-> "vdot_sve", macros |-> {"__ARM_FEATURE_SVE"},
      flags |-> {"supports_sve"}],
     [kernel |-> "_vdot_f32_neon", macros |-> {"__ARM_NEON"},
      flags |-> {"supports_neon"}] >>

\* the first entry of the list that is compiled in and has a flag true in r
FirstMatch(r) ==
  LET hits == { n \in 1..Len(PriorityList) :
                  /\ PriorityList[n].macros \cap targets # {}
                  /\ \E f \in PriorityList[n].flags : r[f] # 0 }
  IN  IF hits = {} THEN "_vdot_f32_serial"
      ELSE PriorityList[CHOOSE n \in hits : \A m \in hits : n <= m].kernel

\* C2: in dynamic-dispatch mode vdot_f32 invokes the first compiled-in
\* kernel of the priority list (avx512f, avx-or-avx2, sve, neon) whose flag
\* is true in the record, and the scalar kernel when none matches; a record
\* with avx512f false and avx true selects the avx kernel.
C2_DynamicWalksPriorityList ==
  Dynamic =>
    /\ selected # "none" => selected = FirstMatch(used)
    /\ \A r \in DispatchRecords :
         /\ vdot_f32_kernel(r) = FirstMatch(r)
         /\ (r.supports_avx512f = 0 /\ r.supports_avx # 0
               /\ {"__AVX__", "__AVX2__"} \cap targets # {})
            => vdot_f32_kernel(r) = "_vdot_f32_avx"

\* a dynamic call with avx512f false and avx true in the record returned
\* from the AVX kernel although the AVX-512 kernel is compiled in
C2_Witness ==
  /\ Dynamic
  /\ selected = "_vdot_f32_avx"
  /\ "__AVX512F__" \in targets
  /\ used.supports_avx512f = 0
  /\ used.supports_avx # 0
  /\ outcome.kernel = "_vdot_f32_avx"

\* the first entry of the list that is compiled in
HighestCompiled ==
  LET hits == { n \in 1..Len(PriorityList) :
                  PriorityList[n].macros \cap targets # {} }
  IN  IF hits = {} THEN "_vdot_f32_serial"
      ELSE PriorityList[CHOOSE n \in hits : \A m \in hits : n <= m].kernel

\* C10: in static-dispatch mode, which is the mode of a build that does not
\* give the switch, the kernel vdot_f32 runs does not depend on the record:
\* every record selects the same kernel, the highest-priority one that is
\* compiled in.
C10_StaticIgnoresRecord ==
  /\ dflag = <<>> => Static
  /\ Static =>
       /\ selected # "none" => selected = HighestCompiled
       /\ \A r \in DispatchRecords : vdot_f32_kernel(r) = HighestCompiled
       /\ Cardinality({ vdot_f32_kernel(r) : r \in DispatchRecords }) = 1

\* a build without the switch ran the AVX-512 kernel on hardware whose
\* probe reports no avx512f
C10_Witness ==
  /\ dflag = <<>>
  /\ selected = "vdot_avx512f"
  /\ simdinfo_runtime_internal(hw).supports_avx512f = 0
  /\ outcome.kernel = "vdot_avx512f"

-----------------------------------------------------------------------------
(* The kernels called directly, each on every input of the bounded sets    *)

SveWidths == {4, 8, 16}

InitKernels ==
  /\ \/ /\ arch = "x86"
        /\ targets = {"__AVX512F__", "__AVX__", "__AVX2__"}
        /\ hw \in { h \in HwX86 : h.info1.ecx # 0 }
        /\ vec_size = 4
     \/ /\ arch = "aarch64"
        /\ targets = {"__ARM_FEATURE_SVE", "__ARM_NEON"}
        /\ hw \in { h \in HwAarch64Linux : h.hwcap2 # 0 }
        /\ vec_size \in SveWidths
  /\ os = "linux" /\ compiler = "gnuc"
  /\ api = "simdinfo_runtime"
  /\ dflag = <<>>
  /\ InitCache
  /\ NoProbe
  /\ NoDriver
  /\ selected = "none"
  /\ used = NoRec
  /\ frame = NoFrame
  /\ outcome = NoOutcome
  /\ size \in 0..MaxSize
  /\ a \in {Ones(size), Ramp(size), Spike(size)}
  /\ b \in {Ones(size), Ramp(size)}
  /\ aligned64 \in BOOLEAN
  /\ arith \in {"exact", "fp"}

\* a direct call of kernel k, which is compiled when a macro of need is defined
Call(k, need) ==
  /\ frame.fn = "none"
  /\ need \cap targets # {}
  /\ frame' = Enter(k)
  /\ UNCHANGED <<buildVars, hw, cacheVars, dispVars, probeVars, driverVars, outcome, inputVars>>

call_vdot_f32_serial ==
  /\ frame.fn = "none"
  /\ frame' = Enter("_vdot_f32_serial")
  /\ UNCHANGED <<buildVars, hw, cacheVars, dispVars, probeVars, driverVars, outcome, inputVars>>

call_vdot_f32_avx == Call("_vdot_f32_avx", {"__AVX__", "__AVX2__"})
call_vdot_avx512f == Call("vdot_avx512f", {"__AVX512F__"})
call_vdot_sve == Call("vdot_sve", {"__ARM_FEATURE_SVE"})
call_vdot_f32_neon == Call("_vdot_f32_neon", {"__ARM_NEON"})

NextKernels ==
  \/ call_vdot_f32_serial
  \/ call_vdot_f32_avx
  \/ call_vdot_avx512f
  \/ call_vdot_sve
  \/ call_vdot_f32_neon
  \/ KernelStep

SpecKernels == InitKernels /\ [][NextKernels]_vars

-----------------------------------------------------------------------------
(* Properties of the kernels, under SpecKernels                            *)

\* the sum over i in [0, n) of a[i] * b[i], in exact arithmetic
RECURSIVE DotProduct(_)
DotProduct(n) == IF n = 0 THEN 0 ELSE DotProduct(n - 1) + a[n] * b[n]

\* the call has ended
Ended == outcome.kind # "none"

\* C6: in exact arithmetic every kernel returns the sum over i in [0, n) of
\* a[i] * b[i]: it reads every index below n, no index at or above n, and
\* its reduction takes in every lane of the vector accumulator.
C6_KernelReturnsDotProduct ==
  (arith = "exact" /\ Ended) =>
    /\ outcome.kind = "value"
    /\ outcome.value = DotProduct(size)
    /\ frame.reads = 0..(size - 1)

\* The kernels other than vdot_avx512f do.
OtherKernelsReturnDotProduct ==
  frame.fn # "vdot_avx512f" => C6_KernelReturnsDotProduct

\* the AVX kernel returned from 17 elements: two chunks and one left over
OtherKernelsWitness ==
  /\ arith = "exact" /\ Ended
  /\ outcome.kernel = "_vdot_f32_avx"
  /\ size = 17 /\ a = Ramp(17) /\ b = Ramp(17)
  /\ outcome.value = DotProduct(17)

\* the elements a step reads
NewReads == frame'.reads \ frame.reads

\* y = p - c; t = sum + y; c = (t - sum) - y; sum = t, on the scalars
KahanScalarStep ==
  LET y == FSub(FMul(a[frame.i + 1], b[frame.i + 1]), frame.c)
      t == FAdd(frame.sum, y)
  IN  /\ frame'.sum = t
      /\ frame'.c = FSub(FSub(t, frame.sum), y)

\* the same on every lane that reads, with a compensation term per lane
KahanVectorStep ==
  /\ Len(frame.cvec) = Len(frame.vsum)
  /\ Len(frame'.cvec) = Len(frame.vsum)
  /\ \A l \in 1..Len(frame.vsum) :
       (frame.i + l - 1) \in NewReads =>
         LET y == FSub(FMul(a[frame.i + l], b[frame.i + l]), frame.cvec[l])
             t == FAdd(frame.vsum[l], y)
         IN  /\ frame'.vsum[l] = t
             /\ frame'.cvec[l] = FSub(FSub(t, frame.vsum[l]), y)

\* C7: every kernel accumulates with the Kahan recurrence: a step that
\* takes in elements follows it, on the scalars or lane by lane with a
\* compensation vector, and the remainder starts from the lane sums of the
\* vector accumulator and of the vector compensation term.
C7_KahanEverywhere ==
  [][ /\ (NewReads # {} /\ outcome'.kind # "fault") =>
           IF frame.pc \in {"loop", "tail"}
           THEN KahanScalarStep ELSE KahanVectorStep
      /\ (frame.pc = "reduce" /\ frame'.pc = "tail") =>
           /\ frame'.sum = SumLanes(frame.vsum, Len(frame.vsum))
           /\ frame'.c = SumLanes(frame.cvec, Len(frame.vsum)) ]_vars

\* The serial, AVX and NEON kernels do.
KahanKernels == {"_vdot_f32_serial", "_vdot_f32_avx", "_vdot_f32_neon"}

KahanInCompensatedKernels ==
  [][ frame.fn \in KahanKernels =>
        /\ (NewReads # {} /\ outcome'.kind # "fault") =>
             IF frame.pc \in {"loop", "tail"}
             THEN KahanScalarStep ELSE KahanVectorStep
        /\ (frame.pc = "reduce" /\ frame'.pc = "tail") =>
             /\ frame'.sum = SumLanes(frame.vsum, Len(frame.vsum))
             /\ frame'.c = SumLanes(frame.cvec, Len(frame.vsum)) ]_vars

\* what _vdot_f32_serial returns on the inputs, by its recurrence
RECURSIVE SerialLoop(_, _, _)
SerialLoop(i, sum, c) ==
  IF i >= size THEN sum
  ELSE LET y == FSub(FMul(a[i + 1], b[i + 1]), c)
           t == FAdd(sum, y)
       IN  SerialLoop(i + 1, t, FSub(FSub(t, sum), y))

SerialResult == SerialLoop(0, 0, 0)

\* SerialResult is what the kernel _vdot_f32_serial returns
SerialResultIsSerial ==
  (Ended /\ outcome.kernel = "_vdot_f32_serial") =>
    (outcome.kind = "value" /\ outcome.value = SerialResult)

RemainderSizes == {0, 1, 7, 8, 9, 15, 16, 17}

\* C8: for n in {0,1,7,8,9,15,16,17}, in exact arithmetic, every vectorized
\* kernel returns what _vdot_f32_serial returns on the same inputs.
C8_VectorizedAgreeWithSerial ==
  (arith = "exact" /\ size \in RemainderSizes /\ Ended) =>
    (outcome.kind = "value" /\ outcome.value = SerialResult)

\* The AVX, SVE and NEON kernels do.
OtherKernelsAgreeWithSerial ==
  frame.fn # "vdot_avx512f" => C8_VectorizedAgreeWithSerial

\* C9: for n = 0 every kernel returns 0.0 and reads no element of a or b.
C9_EmptyInputReturnsZero ==
  (size = 0 /\ Ended) =>
    /\ outcome.kind = "value"
    /\ outcome.value = 0
    /\ frame.reads = {}

\* The kernels other than vdot_avx512f do.
OtherKernelsEmptyInput ==
  frame.fn # "vdot_avx512f" => C9_EmptyInputReturnsZero

\* vdot_avx512f on 16 ones, aligned to 64 bytes: it returns 8, the sum of
\* lanes 0..7
C6_FailingRun ==
  /\ outcome.kernel = "vdot_avx512f" /\ outcome.kind = "value"
  /\ arith = "exact" /\ aligned64
  /\ size = 16 /\ a = Ones(16) /\ b = Ones(16)
  /\ frame.reads = 0..15
  /\ outcome.value = 8

\* vdot_sve with 4 lanes on a = 16, 1, 1, ... and b = 1, 1, ... of 12
\* elements, rounding: lane 0 holds 16 after 16 + 1 + 1, where the Kahan
\* recurrence holds 18, and there is no compensation vector
C7_FailingRun ==
  /\ outcome.kernel = "vdot_sve" /\ outcome.kind = "value"
  /\ arith = "fp" /\ vec_size = 4
  /\ size = 12 /\ a = Spike(12) /\ b = Ones(12)
  /\ frame.cvec = <<>>
  /\ frame.vsum[1] = 16
  /\ outcome.value # SerialResult

\* vdot_avx512f on a = b = 0, 1, ..., 15, aligned: it returns another value
\* than _vdot_f32_serial
C8_FailingRun ==
  /\ outcome.kernel = "vdot_avx512f" /\ outcome.kind = "value"
  /\ arith = "exact" /\ aligned64
  /\ size = 16 /\ a = Ramp(16) /\ b = Ramp(16)
  /\ outcome.value = 140
  /\ SerialResult = 1240

\* vdot_avx512f on no element: the store of 16 floats into sum[8] kills
\* the process before anything is returned
C9_FailingRun ==
  /\ outcome.kernel = "vdot_avx512f" /\ outcome.kind = "fault"
  /\ size = 0
  /\ frame.reads = {}
  /\ frame.stored = 16 /\ frame.room = 8

-----------------------------------------------------------------------------
(* The probes and simdinfo_static called directly, on every build and on   *)
(* registers and capability words with one bit set, one bit clear, none    *)
(* and all                                                                 *)

\* the target-feature macros simdinfo_static tests, and those of the
\* features it has a flag for but does not test
StaticMacros(ar) ==
  IF ar = "x86"
  THEN {"__AVX512F__", "__AVX512FP16__", "__AVX512VNNI__", "__AVX512IFMA__",
        "__AVX512BITALG__", "__AVX512VBMI2__", "__AVX512VPOPCNTDQ__",
        "__AVX__", "__AVX2__", "__F16C__", "__FMA__"}
  ELSE IF ar = "aarch64"
  THEN {"__ARM_FEATURE_SVE", "__ARM_NEON", "__ARM_FEATURE_SVE2"}
  ELSE IF ar = "arm" THEN {"__ARM_NEON"}
  ELSE {}

\* no macro, one macro, all but one, all
ProbeTargets(ar) ==
  {{}, StaticMacros(ar)}
    \cup { {m} : m \in StaticMacros(ar) }
    \cup { StaticMacros(ar) \ {m} : m \in StaticMacros(ar) }

\* the bit positions sampled in a 32-bit word
BitPositions == 0..30

\* the word with bits 0..30 set
AllBits == Pow2(30) - 1 + Pow2(30)

\* one bit set; all of bits 0..30 set but one; none; all of bits 0..30
Words ==
  {0, AllBits}
    \cup { Pow2(k) : k \in BitPositions }
    \cup { AllBits - Pow2(k) : k \in BitPositions }

RegNames == {"eax", "ebx", "ecx", "edx"}

ZeroRegs == Regs(0, 0, 0, 0)

\* cpuid answers in which one register of one leaf is sampled
ProbeHwX86 ==
  { Hw([ZeroRegs EXCEPT ![r] = w], ZeroRegs, 0, 0, FALSE, NoSysctl) :
      r \in RegNames, w \in Words }
    \cup { Hw(ZeroRegs, [ZeroRegs EXCEPT ![r] = w], 0, 0, FALSE, NoSysctl) :
             r \in RegNames, w \in Words }

\* getauxval answers in which one of the two words is sampled, the other 0
\* (getauxval returns 0 when the entry is not found) or all ones
ProbeHwAux ==
  { Hw(ZeroRegs, ZeroRegs, w, v, FALSE, NoSysctl) :
      w \in Words, v \in {0, AllBits} }
    \cup { Hw(ZeroRegs, ZeroRegs, v, w, FALSE, NoSysctl) :
             w \in Words, v \in {0, AllBits} }

\* sysctlbyname answers: the call fails, or delivers 0 or 1 for each name
ProbeHwSysctl ==
  { Hw(ZeroRegs, ZeroRegs, 0, 0, ok,
       [NoSysctl EXCEPT !["hw.optional.arm.FEAT_I8MM"] = v,
                        !["hw.optional.arm.FEAT_FP16"] = w]) :
      ok \in BOOLEAN, v \in {0, 1}, w \in {0, 1} }

ProbeHw(ar, o) ==
  IF ar = "x86" THEN ProbeHwX86
  ELSE IF ar \in {"aarch64", "arm"} /\ o = "linux" THEN ProbeHwAux
  ELSE IF ar = "aarch64" /\ o = "apple" THEN ProbeHwSysctl
  ELSE HwNone

InitProbe ==
  /\ \E bld \in Builds :
       /\ arch = bld[1] /\ os = bld[2] /\ compiler = bld[3]
       /\ api \in Apis(bld[3])
       /\ \/ targets \in ProbeTargets(bld[1]) /\ hw \in HwFew(bld[1], bld[2])
          \/ targets = {} /\ hw \in ProbeHw(bld[1], bld[2])
  /\ dflag = <<>>
  /\ InitCache
  /\ InitIdle

\* a direct call of simdinfo_internal()
call_simdinfo_internal ==
  /\ called = "none"
  /\ api = "simdinfo"
  /\ called' = "simdinfo_internal"
  /\ result' = simdinfo_internal(hw)
  /\ UNCHANGED <<buildVars, hw, cacheVars, dispVars, kernelVars, driverVars>>

\* a direct call of simdinfo_runtime_internal()
call_simdinfo_runtime_internal ==
  /\ called = "none"
  /\ api = "simdinfo_runtime"
  /\ called' = "simdinfo_runtime_internal"
  /\ result' = simdinfo_runtime_internal(hw)
  /\ UNCHANGED <<buildVars, hw, cacheVars, dispVars, kernelVars, driverVars>>

\* a direct call of simdinfo_static()
call_simdinfo_static ==
  /\ called = "none"
  /\ api = "simdinfo_runtime"
  /\ called' = "simdinfo_static"
  /\ result' = simdinfo_static
  /\ UNCHANGED <<buildVars, hw, cacheVars, dispVars, kernelVars, driverVars>>

NextProbe ==
  \/ call_simdinfo_internal
  \/ call_simdinfo_runtime_internal
  \/ call_simdinfo_static

SpecProbe == InitProbe /\ [][NextProbe]_vars

-----------------------------------------------------------------------------
(* Properties of the probes and of simdinfo_static, under SpecProbe        *)

\* the target macro that guarantees the feature of a flag
MacroOf ==
  [f \in simdinfo_runtime_t |->
     CASE f = "supports_avx" -> "__AVX__"
       [] f = "supports_avx2" -> "__AVX2__"
       [] f = "supports_f16c" -> "__F16C__"
       [] f = "supports_fma" -> "__FMA__"
       [] f = "supports_avx512f" -> "__AVX512F__"
       [] f = "supports_avx512fp16" -> "__AVX512FP16__"
       [] f = "supports_avx512vnni" -> "__AVX512VNNI__"
       [] f = "supports_avx512ifma" -> "__AVX512IFMA__"
       [] f = "supports_avx512bitalg" -> "__AVX512BITALG__"
       [] f = "supports_avx512vbmi2" -> "__AVX512VBMI2__"
       [] f = "supports_avx512vpopcntdq" -> "__AVX512VPOPCNTDQ__"
       [] f = "supports_neon" -> "__ARM_NEON"
       [] f = "supports_sve" -> "__ARM_FEATURE_SVE"
       [] f = "supports_sve2" -> "__ARM_FEATURE_SVE2"]

\* the flags of fs are true in the static record exactly when their macro
\* is defined
StaticMatchesTarget(fs) ==
  called = "simdinfo_static" =>
    \A f \in fs : (result[f] # 0) <=> (MacroOf[f] \in targets)

\* C11: the record of simdinfo_static has a flag true exactly when the
\* target macro of its feature is defined, for every flag of the record,
\* f16c, fma and sve2 included.
C11_StaticRecordMatchesTarget == StaticMatchesTarget(simdinfo_runtime_t)

\* The flags other than f16c, fma and sve2 do.
UntestedFlags == {"supports_f16c", "supports_fma", "supports_sve2"}

StaticTestedFlagsMatchTarget ==
  StaticMatchesTarget(simdinfo_runtime_t \ UntestedFlags)

\* a build with -mfma, which defines __FMA__: simdinfo_static returned
\* supports_fma = 0
C11_FailingRun ==
  /\ called = "simdinfo_static"
  /\ targets = {"__FMA__"}
  /\ result.supports_fma = 0

\* bit k of the word w
Bit(w, k) == (w \div Pow2(k)) % 2

Probed == called \in {"simdinfo_internal", "simdinfo_runtime_internal"}

\* the flags of the returned record among fs are all false
AllFalse(fs) == \A f \in fs \cap DOMAIN result : result[f] = 0

\* the flags decoded from each capability word
HwcapFlags ==
  IF AARCH64
  THEN {"supports_sve", "supports_arm_feature_fp16_vector_arithmetic"}
  ELSE {"supports_neon", "supports_neon_fma",
        "supports_arm_feature_fp16_vector_arithmetic"}

Hwcap2Flags ==
  IF AARCH64
  THEN {"supports_sve2", "supports_arm_feature_matmul_int8"}
  ELSE {"supports_arm_feature_matmul_int8"}

SysctlFlags ==
  {"supports_arm_feature_matmul_int8",
   "supports_arm_feature_fp16_vector_arithmetic"}

\* the bit of its capability word a flag is decoded from, where the build
\* reads the words
BitOfFlag(f) ==
  IF AARCH64
  THEN CASE f = "supports_sve" -> 22
         [] f = "supports_sve2" -> 1
         [] f = "supports_arm_feature_matmul_int8" -> 13
         [] f = "supports_arm_feature_fp16_vector_arithmetic" -> 10
  ELSE CASE f = "supports_neon" -> 12
         [] f = "supports_neon_fma" -> 16
         [] f = "supports_arm_feature_matmul_int8" -> 27
         [] f = "supports_arm_feature_fp16_vector_arithmetic" -> 23

\* the flags among fs are what the word w holds at their bit
Decoded(fs, w) ==
  \A f \in fs \cap DOMAIN result : result[f] = Bit(w, BitOfFlag(f))

\* the flags the 64-bit ARM baseline guarantees are true
BaselineKept ==
  AARCH64 =>
    \A f \in {"supports_neon", "supports_neon_fma"} \cap DOMAIN result :
       result[f] = 1

ReadsAuxv == LINUX /\ (AARCH64 \/ (ARM /\ called = "simdinfo_internal"))

\* C12: the dynamic probe always returns a record of flags; when
\* getauxval returns 0 for a capability word, or sysctlbyname fails and
\* leaves its output untouched, every flag decoded from that query is
\* false and the other flags are what they are without the failure.
C12_QueryFailureYieldsFalseFlags ==
  Probed =>
    /\ result \in [Fields -> {0, 1}]
    /\ (ReadsAuxv /\ hw.hwcap = 0) =>
          /\ AllFalse(HwcapFlags)
          /\ Decoded(Hwcap2Flags, hw.hwcap2)
          /\ BaselineKept
    /\ (ReadsAuxv /\ hw.hwcap2 = 0) =>
          /\ AllFalse(Hwcap2Flags)
          /\ Decoded(HwcapFlags, hw.hwcap)
          /\ BaselineKept
    /\ (AARCH64 /\ APPLE /\ ~hw.sysctl_ok) =>
          /\ AllFalse(SysctlFlags)
          /\ BaselineKept
          /\ AllFalse({"supports_sve", "supports_sve2"})

\* sysctlbyname fails where the processor has the feature, and the flag
\* is false
C12_Witness ==
  /\ called = "simdinfo_internal"
  /\ AARCH64 /\ APPLE
  /\ ~hw.sysctl_ok
  /\ hw.sysctl["hw.optional.arm.FEAT_I8MM"] = 1
  /\ result.supports_arm_feature_matmul_int8 = 0
  /\ result.supports_neon = 1

\* the decoding table of the x86 probes: the leaf, the register and the
\* bit of each flag
X86Table ==
  [f \in (simdinfo_t \cup simdinfo_runtime_t) |->
     CASE f = "supports_avx" -> <<7, "ecx", 28>>
       [] f = "supports_avx2" -> <<7, "ebx", 5>>
       [] f = "supports_f16c" -> <<1, "ecx", 29>>
       [] f = "supports_fma" -> <<1, "ecx", 12>>
       [] f = "supports_avxvnni" -> <<7, "eax", 4>>
       [] f = "supports_avx512f" -> <<7, "ebx", 16>>
       [] f = "supports_avx512fp16" -> <<7, "edx", 23>>
       [] f = "supports_avx512bf16" -> <<7, "edx", 5>>
       [] f = "supports_avx512vnni" -> <<7, "ecx", 11>>
       [] f = "supports_avx512vbmi" -> <<7, "ecx", 1>>
       [] f = "supports_avx512dq" -> <<7, "ebx", 17>>
       [] f = "supports_avx512ifma" -> <<7, "ebx", 21>>
       [] f = "supports_avx512bitalg" -> <<7, "ecx", 12>>
       [] f = "supports_avx512vbmi2" -> <<7, "ecx", 6>>
       [] f = "supports_avx512vpopcntdq" -> <<7, "ecx", 14>>
       [] OTHER -> <<0, "eax", 0>>]

\* the flags the x86 probes assign
X86Flags == { f \in DOMAIN X86Table : X86Table[f][1] # 0 }

\* the registers of leaf 1 or leaf 7, sub-leaf 0, of the processor
Leaf(n) == IF n = 1 THEN hw.info1 ELSE hw.info7

\* C14: on x86 each flag of the dynamic probe is the bit of its table
\* entry in the registers of leaf 1 and leaf 7 at sub-leaf 0, whatever
\* the other bits of the registers are.
C14_X86FlagsAreTableBits ==
  (X86 /\ Probed) =>
    \A f \in X86Flags \cap DOMAIN result :
       result[f] = Bit(Leaf(X86Table[f][1])[X86Table[f][2]], X86Table[f][3])

\* leaf 7 ecx has every bit but bit 28: avx is false, the flags of the
\* other ecx bits are true
C14_Witness ==
  /\ X86
  /\ called = "simdinfo_internal"
  /\ hw.info7.ecx = AllBits - Pow2(28)
  /\ result.supports_avx = 0
  /\ result.supports_avx512vnni = 1
  /\ result.supports_avx512vbmi = 1

\* the flags of struct simdinfo_t the x86 branch never assigns
ArmFlags ==
  {"supports_neon", "supports_neon_fma", "supports_sve", "supports_sve2",
   "supports_arm_feature_matmul_int8",
   "supports_arm_feature_fp16_vector_arithmetic"}

\* C20: on x86 the record of the dynamic probe has sse3, ssse3 and every
\* ARM flag false, whatever the identification registers hold.
C20_X86LeavesOtherFlagsFalse ==
  (X86 /\ Probed) =>
    AllFalse({"supports_sse3", "supports_ssse3"} \cup ArmFlags)

\* every bit of leaf 1 ecx is set (bit 0 is SSE3, bit 9 SSSE3) and the two
\* flags are false
C20_Witness ==
  /\ X86
  /\ called = "simdinfo_internal"
  /\ hw.info1.ecx = AllBits
  /\ result.supports_fma = 1
  /\ result.supports_sse3 = 0
  /\ result.supports_ssse3 = 0

\* C15, as stated: on every 64-bit ARM build the record of the dynamic
\* probe has neon and neon_fma true, and sve, sve2, i8mm and fp16 true
\* exactly when their bit is set in the two capability words.
C15_Aarch64FlagsFromBitmaps ==
  (AARCH64 /\ Probed) =>
    /\ BaselineKept
    /\ Decoded(HwcapFlags, hw.hwcap)
    /\ Decoded(Hwcap2Flags, hw.hwcap2)

\* the answer sysctlbyname leaves for a name: the kernel's, or the 0 the
\* variable was initialised with
SysctlAnswer(name) == IF hw.sysctl_ok THEN hw.sysctl[name] ELSE 0

\* C15, amended: neon and neon_fma are true on every 64-bit ARM build;
\* on Linux sve, sve2, i8mm and fp16 are the bits of the two capability
\* words; on macOS, where no capability word is read, sve and sve2 are
\* false and i8mm and fp16 are the answers of sysctlbyname; elsewhere the
\* four are false.
C15_Aarch64FlagsPerOS ==
  (AARCH64 /\ Probed) =>
    /\ BaselineKept
    /\ LINUX =>
         /\ Decoded(HwcapFlags, hw.hwcap)
         /\ Decoded(Hwcap2Flags, hw.hwcap2)
    /\ APPLE =>
         /\ AllFalse({"supports_sve", "supports_sve2"})
         /\ called = "simdinfo_internal" =>
              /\ result.supports_arm_feature_matmul_int8 =
                    SysctlAnswer("hw.optional.arm.FEAT_I8MM")
              /\ result.supports_arm_feature_fp16_vector_arithmetic =
                    SysctlAnswer("hw.optional.arm.FEAT_FP16")
         /\ called = "simdinfo_runtime_internal" => AllFalse(SysctlFlags)
    /\ (~LINUX /\ ~APPLE) => AllFalse(HwcapFlags \cup Hwcap2Flags)

\* Linux: hwcap is zero and hwcap2 has the i8mm bit alone
C15_Witness ==
  /\ AARCH64 /\ LINUX
  /\ called = "simdinfo_internal"
  /\ hw.hwcap = 0 /\ hw.hwcap2 = Pow2(13)
  /\ result.supports_neon = 1 /\ result.supports_neon_fma = 1
  /\ result.supports_arm_feature_matmul_int8 = 1
  /\ result.supports_sve = 0 /\ result.supports_sve2 = 0

-----------------------------------------------------------------------------
(* Unrecognized architectures, under SpecDispatch                          *)

\* none of the #if branches of the probe is compiled
Unrecognized == ~X86 /\ ~AARCH64 /\ ~(ARM /\ LINUX)

ProbesAllFalse ==
  /\ simdinfo_internal(hw) = ZeroInfo(simdinfo_t)
  /\ simdinfo_runtime_internal(hw) = ZeroInfo(simdinfo_runtime_t)

ScalarOutcome ==
  [kernel |-> "_vdot_f32_serial", kind |-> "value", value |-> SerialResult]

\* C13, as stated: on a build for an unrecognized architecture the probe
\* returns a record with every flag false, and vdot_f32 runs the scalar
\* kernel and returns its result without an error.
C13_UnrecognizedRunsScalar ==
  Unrecognized =>
    /\ ProbesAllFalse
    /\ selected # "none" => selected = "_vdot_f32_serial"
    /\ Ended => outcome = ScalarOutcome

\* C13, amended: the probe returns the all-false record; with dynamic
\* dispatch, or when the target defines no macro of a SIMD kernel,
\* vdot_f32 runs the scalar kernel and returns its result; with static
\* dispatch (the default) it runs the first kernel of the priority list
\* that is compiled in, whatever the architecture; no call ends in an
\* error.
C13_UnrecognizedRunsScalarWhenDynamic ==
  Unrecognized =>
    /\ ProbesAllFalse
    /\ (selected # "none" /\ Dynamic) =>
         /\ used = ZeroInfo(simdinfo_runtime_t)
         /\ selected = "_vdot_f32_serial"
    /\ (selected # "none" /\ targets = {}) => selected = "_vdot_f32_serial"
    /\ (selected # "none" /\ Static) => selected = HighestCompiled
    /\ Ended =>
         /\ outcome.kind = "value"
         /\ outcome.kernel = selected
         /\ selected = "_vdot_f32_serial" => outcome = ScalarOutcome

\* 32-bit ARM, not Linux, compiled with NEON, dynamic dispatch: the probe
\* reported nothing and the scalar kernel returned the sum of squares 0..8
C13_Witness ==
  /\ Unrecognized /\ Dynamic
  /\ "__ARM_NEON" \in targets
  /\ used = ZeroInfo(simdinfo_runtime_t)
  /\ size = 9
  /\ outcome = ScalarOutcome
  /\ outcome.value = 204

-----------------------------------------------------------------------------
(* Memory safety of the kernels, under SpecKernels                         *)

\* C17: every kernel reads only a[i] and b[i] with 0 <= i < n, and every
\* store of a vector register to a local array writes no more elements
\* than the array holds.
C17_ReadsAndStoresInBounds ==
  /\ frame.reads \subseteq 0..(size - 1)
  /\ frame.stored <= frame.room

\* The serial, AVX, SVE and NEON kernels do.
OtherKernelsInBounds ==
  frame.fn # "vdot_avx512f" => C17_ReadsAndStoresInBounds

\* the AVX kernel ended on 17 elements having read exactly 0..16 and
\* stored 8 floats into result[8]
OtherKernelsInBoundsWitness ==
  /\ frame.fn = "_vdot_f32_avx" /\ Ended
  /\ size = 17
  /\ frame.reads = 0..16
  /\ frame.stored = 8 /\ frame.room = 8

\* vdot_avx512f on 17 elements aligned to 64 bytes: the second iteration
\* loaded a[16..31], and the 16 lanes were stored into float sum[8]
C17_FailingRun ==
  /\ frame.fn = "vdot_avx512f"
  /\ size = 17 /\ aligned64
  /\ 31 \in frame.reads
  /\ frame.stored = 16 /\ frame.room = 8

-----------------------------------------------------------------------------
(* Order of the two stores of the cached accessor, under Spec              *)

\* in this state the cache of thread t is marked valid
Marked(t) == initialized[t] # 0

\* the step sets the flag of thread t
SetsFlag(t) == initialized[t] = 0 /\ initialized'[t] # 0

\* the step returns from a call of thread t
Returns(t) == calls'[t] = calls[t] + 1

\* C18: initialized is set only in a state where the probed record is
\* already in info; whenever initialized is 1 the stored record is the
\* result of the thread's probe; every call returns a record the thread
\* has probed, never the placeholder info = {0}.
C18_FlagSetAfterRecordStored ==
  /\ [](\A t \in Threads :
          Marked(t) =>
            /\ probes[t] = 1
            /\ info[t] = firstProbe[t]
            /\ info[t] = tmp[t])
  /\ [][\A t \in Threads :
          /\ SetsFlag(t) =>
               /\ probes[t] = 1
               /\ info[t] = tmp[t]
               /\ info'[t] = info[t]
          /\ Returns(t) =>
               /\ probes[t] >= 1
               /\ ret'[t] = tmp[t]]_vars

\* a thread probed a processor with features once, and both of its calls
\* returned that record
C18_Witness ==
  \E t \in Threads :
    /\ Marked(t)
    /\ calls[t] = 2 /\ probes[t] = 1
    /\ firstProbe[t] # ZeroInfo(Fields)
    /\ info[t] = firstProbe[t]
    /\ ret[t] = firstProbe[t] /\ firstRet[t] = firstProbe[t]

-----------------------------------------------------------------------------
(* Termination: the kernels called on lengths up to SIZE_MAX.  The arrays  *)
(* hold zeros, so that a loop that starts over finds the state it had.     *)
(* A kernel that has been entered keeps executing: weak fairness of its    *)
(* steps.                                                                  *)

\* lengths within one chunk of the largest kernel of SIZE_MAX, and short ones
TerminationSizes == {0, 1} \cup ((SIZE_MAX - 16)..SIZE_MAX)

InitTermination ==
  /\ \/ /\ arch = "x86"
        /\ targets = {"__AVX512F__", "__AVX__", "__AVX2__"}
        /\ vec_size = 4
     \/ /\ arch = "aarch64"
        /\ targets = {"__ARM_FEATURE_SVE", "__ARM_NEON"}
        /\ vec_size \in SveWidths
  /\ hw \in HwNone
  /\ os = "linux" /\ compiler = "gnuc"
  /\ api = "simdinfo_runtime"
  /\ dflag = <<>>
  /\ InitCache
  /\ NoProbe
  /\ NoDriver
  /\ selected = "none"
  /\ used = NoRec
  /\ frame = NoFrame
  /\ outcome = NoOutcome
  /\ size \in TerminationSizes
  /\ a = Zeros(size) /\ b = Zeros(size)
  /\ aligned64 = TRUE
  /\ arith = "fp"

SpecTermination ==
  InitTermination /\ [][NextKernels]_vars /\ WF_vars(KernelStep)

\* a kernel has been entered and has not returned
Running == frame.fn # "none" /\ frame.pc # "done"

KahanKernelsTerminate ==
  (Running /\ frame.fn \in {"_vdot_f32_serial", "_vdot_f32_avx", "_vdot_f32_neon"})
    ~> Ended

\* Every kernel ends on a length more than one 16-lane chunk below SIZE_MAX.
KernelsTerminateBelowWrap == (Running /\ size < SIZE_MAX - 16) ~> Ended

C16_FailingRunAvx512 ==
  /\ frame.fn = "vdot_avx512f" /\ frame.pc = "vloop"
  /\ size = SIZE_MAX
  /\ frame.i = 0
  /\ (size - 1) \in frame.reads

-----------------------------------------------------------------------------
(* The driver, main.c.  argv1 is the text of argv[1], one character per    *)
(* element; heap records which of the two malloc calls succeeded; printed  *)
(* is the message written; status is how the process ended.                *)

Digits == <<"0", "1", "2", "3", "4", "5", "6", "7", "8", "9">>

IsDigit(c) == \E d \in 1..10 : Digits[d] = c
DigitValue(c) == (CHOOSE d \in 1..10 : Digits[d] = c) - 1

\* the digits of s from position k on, as strtol reads them
RECURSIVE ParseDigits(_, _, _)
ParseDigits(s, k, acc) ==
  IF k > Len(s) \/ ~IsDigit(s[k]) THEN acc
  ELSE ParseDigits(s, k + 1, 10 * acc + DigitValue(s[k]))

\* the first position of s that holds no white space
RECURSIVE SkipSpace(_, _)
SkipSpace(s, k) ==
  IF k <= Len(s) /\ s[k] = " " THEN SkipSpace(s, k + 1) ELSE k

\* int atoi(const char *s): white space, an optional sign, then digits up
\* to the first character that is none; 0 when there is no digit
atoi(s) ==
  LET k == SkipSpace(s, 1)
  IN  IF k <= Len(s) /\ s[k] = "-" THEN 0 - ParseDigits(s, k + 1, 0)
      ELSE IF k <= Len(s) /\ s[k] = "+" THEN ParseDigits(s, k + 1, 0)
      ELSE ParseDigits(s, k, 0)

\* the texts given as argv[1], each with the int it stands for
Arguments ==
  { [text |-> <<>>, value |-> 0],
    [text |-> <<"0">>, value |-> 0],
    [text |-> <<"-", "3">>, value |-> -3],
    [text |-> <<"a", "b", "c">>, value |-> 0],
    [text |-> <<"1">>, value |-> 1],
    [text |-> <<" ", "+", "9">>, value |-> 9],
    [text |-> <<"1", "6">>, value |-> 16],
    [text |-> <<"1", "7", "x">>, value |-> 17],
    [text |-> <<"1", "8">>, value |-> 18] }

\* a[i] = i; b[i] = i;  the size_t i is converted to float
Fill(n) == [i \in 1..n |-> Rd(i - 1)]

InitDriver ==
  /\ \E ar \in {"x86", "aarch64"} :
       /\ arch = ar
       /\ targets \in TargetSets(ar)
       /\ hw \in HwFew(ar, "linux")
       /\ vec_size \in (IF ar = "aarch64" THEN SveWidths ELSE {4})
  /\ os = "linux" /\ compiler = "gnuc"
  /\ api = "simdinfo_runtime"
  /\ dflag \in {<<>>, <<1>>, <<0>>}
  /\ InitCache
  /\ NoProbe
  /\ selected = "none"
  /\ used = NoRec
  /\ frame = NoFrame
  /\ outcome = NoOutcome
  /\ size = 0 /\ a = <<>> /\ b = <<>>
  /\ aligned64 = TRUE
  /\ arith \in {"exact", "fp"}
  /\ dpc = "start"
  /\ argc \in {1, 2, 3}
  /\ IF argc = 1 THEN argv1 = <<>> ELSE argv1 \in { x.text : x \in Arguments }
  /\ heap = <<>>
  /\ printed = ""
  /\ status = "none"
  /\ ncalls = 0

\* printf(message); return 1;
Exit1(message) ==
  /\ printed' = message
  /\ status' = "exit 1"
  /\ dpc' = "exited"

\* if (argc != 2) { usage; return 1; }  int size = atoi(argv[1]);
\* if (size <= 0) { invalid size; return 1; }  size_t n = (size_t)size;
main_check ==
  /\ dpc = "start"
  /\ IF argc # 2
     THEN Exit1("Usage: %s <size>") /\ UNCHANGED size
     ELSE IF atoi(argv1) <= 0
     THEN Exit1("Invalid size") /\ UNCHANGED size
     ELSE /\ size' = Wrap(atoi(argv1))
          /\ dpc' = "alloc"
          /\ UNCHANGED <<printed, status>>
  /\ UNCHANGED <<buildVars, hw, cacheVars, dispVars, probeVars, frame, outcome,
                 a, b, aligned64, arith, vec_size, argc, argv1, heap, ncalls>>

\* a = malloc(n * sizeof(float)); b = malloc(n * sizeof(float));
\* if (a == NULL || b == NULL) { allocation failed; return 1; }
\* for (i = 0; i < n; i++) { a[i] = i; b[i] = i; }
\* Each malloc succeeds or returns NULL; the blocks are aligned for any
\* standard type, to 64 bytes or not.
main_alloc ==
  /\ dpc = "alloc"
  /\ \E okA \in BOOLEAN, okB \in BOOLEAN, al \in BOOLEAN :
       /\ heap' = <<okA, okB>>
       /\ IF ~okA \/ ~okB
          THEN /\ Exit1("Memory allocation failed")
               /\ UNCHANGED <<a, b, aligned64>>
          ELSE /\ a' = Fill(size) /\ b' = Fill(size)
               /\ aligned64' = al
               /\ dpc' = "call"
               /\ UNCHANGED <<printed, status>>
  /\ UNCHANGED <<buildVars, hw, cacheVars, dispVars, probeVars, frame, outcome,
                 size, arith, vec_size, argc, argv1, ncalls>>

\* float result = vdot_f32(a, b, n);  the call is entered
main_call ==
  /\ dpc = "call"
  /\ vdot_f32_call(1)
  /\ ncalls' = ncalls + 1
  /\ dpc' = "vdot_f32"
  /\ UNCHANGED <<probeVars, argc, argv1, heap, printed, status>>

\* printf("Result: %.2f\n", result); return 0;  when the call has returned;
\* a process killed in the call prints nothing and has no exit status
main_return ==
  /\ dpc = "vdot_f32"
  /\ Ended
  /\ IF outcome.kind = "value"
     THEN /\ printed' = "Result: %.2f"
          /\ status' = "exit 0"
          /\ dpc' = "exited"
     ELSE /\ status' = "killed"
          /\ dpc' = "killed"
          /\ UNCHANGED printed
  /\ UNCHANGED <<buildVars, hw, cacheVars, dispVars, probeVars, kernelVars,
                 argc, argv1, heap, ncalls>>

NextDriver ==
  \/ main_check
  \/ main_alloc
  \/ main_call
  \/ KernelStep
  \/ main_return

SpecDriver == InitDriver /\ [][NextDriver]_vars

-----------------------------------------------------------------------------
(* Properties of the driver, under SpecDriver                              *)

\* the int the text of argv[1] stands for
ArgValue == (CHOOSE x \in Arguments : x.text = argv1).value

\* atoi delivers the int of every text of Arguments
AtoiParses == \A x \in Arguments : atoi(x.text) = x.value

AllocFailed == heap # <<>> /\ (~heap[1] \/ ~heap[2])

Rejected(message) ==
  /\ dpc = "exited"
  /\ printed = message
  /\ status = "exit 1"
  /\ ncalls = 0

\* the process is over
Over == dpc \in {"exited", "killed"}

\* C19: with argc other than 2, a size that parses to a value <= 0, or a
\* failed allocation, the driver prints the message of the case and exits
\* with status 1 without calling vdot_f32; otherwise it fills both arrays
\* with 0..n-1, calls vdot_f32 exactly once and exits with status 0.
C19_DriverValidatesThenCalls ==
  /\ ncalls <= 1
  /\ Over =>
       IF argc # 2 THEN Rejected("Usage: %s <size>")
       ELSE IF ArgValue <= 0 THEN Rejected("Invalid size")
       ELSE IF AllocFailed THEN Rejected("Memory allocation failed")
       ELSE /\ size = ArgValue
            /\ a = Ramp(size) /\ b = Ramp(size)
            /\ ncalls = 1
            /\ status = "exit 0"

\* The three rejections are as the claim says, and no call of vdot_f32 is
\* made before the checks have passed.
DriverRejects ==
  /\ ncalls <= 1
  /\ ncalls = 1 => (argc = 2 /\ ArgValue > 0 /\ heap = <<TRUE, TRUE>>)
  /\ Over =>
       IF argc # 2 THEN Rejected("Usage: %s <size>")
       ELSE IF ArgValue <= 0 THEN Rejected("Invalid size")
       ELSE IF AllocFailed THEN Rejected("Memory allocation failed")
       ELSE ncalls = 1 /\ size = ArgValue

\* Where vdot_f32 does not run vdot_avx512f and every index is
\* representable as a float, the accepted run is as the claim says.
DriverAcceptsWithoutAvx512 ==
  (Over /\ ncalls = 1 /\ selected # "vdot_avx512f" /\ arith = "exact") =>
    /\ a = Ramp(size) /\ b = Ramp(size)
    /\ status = "exit 0"
    /\ printed = "Result: %.2f"

DriverAcceptsWitness ==
  /\ dpc = "exited" /\ ncalls = 1
  /\ selected = "_vdot_f32_avx" /\ arith = "exact"
  /\ size = 17 /\ a = Ramp(17)
  /\ status = "exit 0"

\* the build of the Makefile's bin/main-x86_64, size 16: the arrays were
\* filled, vdot_f32 entered vdot_avx512f, and the process was killed
C19_FailingRun ==
  /\ arch = "x86" /\ dflag = <<>>
  /\ targets = {"__AVX512F__", "__AVX__", "__AVX2__"}
  /\ argc = 2 /\ ArgValue = 16
  /\ heap = <<TRUE, TRUE>>
  /\ a = Ramp(16)
  /\ ncalls = 1
  /\ selected = "vdot_avx512f"
  /\ dpc = "killed" /\ status = "killed"

\* size 18 in arithmetic that rounds: a[17] holds 16, the nearest float
FillRoundedRun ==
  /\ dpc = "exited" /\ ncalls = 1
  /\ arith = "fp" /\ size = 18
  /\ a[18] = 16
  /\ status = "exit 0"

====
